---- MODULE Spec2Model ----
(***************************************************************************)
(* One execution of ComfyuiImageAudioToVideo.execute                        *)
(* (src/nodes/ComfyUI/ComfyuiImageAudioToVideo.node.ts, lines 114-446).     *)
(*                                                                         *)
(* The execution is a single sequential async function.  pc names the      *)
(* statement the execution is about to run; every action runs the code up  *)
(* to the next await (a request together with the answer it returns, or a  *)
(* timer).  Node parameters and the input item are constant during an      *)
(* execution; the model draws each of them at the statement that first     *)
(* uses it, and forgets a local once no later statement reads it.          *)
(***************************************************************************)
EXTENDS Integers, Sequences, FiniteSets, TLC

VARIABLES
    pc,            \* position of the execution
    error,         \* the error thrown inside the try block ("none" while running)
    thrown,        \* the error execute rejects with (lines 439-445)
    sent,          \* number of requests issued so far, per operation
    binary,        \* items[0].binary as Object.keys lists it, once read
    imageInfo,     \* handle returned by the image upload (line 233)
    audioInfo,     \* handle returned by the audio upload, NoInfo when null (line 237)
    audioLookup,   \* which branch lines 238-253 took
    workflow,      \* the workflow parameter (line 116), once it is parsed
    workflowData,  \* the parsed graph being patched (line 256)
    timeout,       \* the timeout parameter (line 118), once maxAttempts is computed
    attempts,      \* line 323
    elapsed,       \* seconds waited in timers since the submission returned
    promptResult,  \* history[promptId] of the query that observed completion
    videoOutput,   \* the selected output (line 388)
    result         \* the item returned (lines 418-435)

vars == <<pc, error, thrown, sent, binary, imageInfo, audioInfo, audioLookup, workflow,
          workflowData, timeout, attempts, elapsed, promptResult, videoOutput, result>>

-----------------------------------------------------------------------------
(* Bounds of the model *)

MaxNodes == 2          \* nodes in a workflow graph
MaxAttachments == 2    \* binary properties on the input item
MaxTimeout == 1        \* largest whole number of minutes drawn for timeout
MaxGroups == 1         \* node entries in promptResult.outputs
MaxEntries == 2        \* entries in all lists of promptResult.outputs together

-----------------------------------------------------------------------------
(* Values *)

Undefined == "undefined"
Orig == "orig"         \* a value the caller's graph text carries in an input

NoInfo == [name |-> "null"]

ImageNames == {"input.png", "stored.png"}
AudioNames == {"input.mp3", "stored.mp3"}

Keys == {"image", "audio", "filename"}

\* inputs objects of a node: the keys the interface and the code look at
InputShapes ==
    { [k \in Keys |-> IF k \in S THEN Orig ELSE Undefined] :
        S \in {{}, {"image"}, {"audio"}, {"filename"}, {"audio", "filename"}} }

NoInputs == [k \in Keys |-> Undefined]

\* interface ComfyUINode (lines 10-16); JSON text can also put null, or an
\* object without inputs, where a node is expected
NullNode == [isNull |-> TRUE, class_type |-> Undefined, hasInputs |-> FALSE, inputs |-> NoInputs]

ComfyUINode ==
    {NullNode} \cup
    [isNull : {FALSE}, class_type : {"LoadImage", "LoadAudio", "KSampler"},
     hasInputs : {TRUE}, inputs : InputShapes] \cup
    [isNull : {FALSE}, class_type : {"LoadImage", "LoadAudio", "KSampler"},
     hasInputs : {FALSE}, inputs : {NoInputs}]

SeqsUpTo(S, n) == UNION { [1..k -> S] : k \in 0..n }

\* interface ComfyUIWorkflow (lines 18-20), in Object.values order
ComfyUIWorkflow == SeqsUpTo(ComfyUINode, MaxNodes)

\* the workflow parameter: text that is no JSON, JSON of a scalar, JSON null,
\* or JSON of an object
WorkflowTexts ==
    { [kind |-> k, nodes |-> <<>>] : k \in {"malformed", "scalar", "null"} } \cup
    { [kind |-> "object", nodes |-> g] : g \in ComfyUIWorkflow }

NoWorkflow == [kind |-> "unread", nodes |-> <<>>]

\* a MIME type, split at its first slash; Undefined when the property has none
MimeTypes == { <<"image", "png">>, <<"audio", "mpeg">>, <<"text", "plain">> }

PropertyKeys == {"data", "audio", "extra"}

Attachments == [key : PropertyKeys, mimeType : MimeTypes]

\* items[0].binary, in Object.keys order; keys of an object are distinct
BinaryData ==
    { b \in SeqsUpTo(Attachments, MaxAttachments) :
        \A i, j \in DOMAIN b : i # j => b[i].key # b[j].key }

Unread == << [key |-> "unread", mimeType |-> <<"", "">>] >>

\* the timeout parameter is a number: whole minutes, fractions, below zero.
\* A value is num / den with den > 0.
Timeouts ==
    { [num |-> n, den |-> 1] : n \in -1..MaxTimeout } \cup
    { [num |-> 1, den |-> 100], [num |-> 1, den |-> 2] }

NoTimeout == [num |-> 0, den |-> 1]

\* the characters of the file names and suffixes of the model, so that
\* endsWith is computed on them
Chars ==
    [ name \in {"a.png", "b.webp", "c.mp4", "d.gif", "webp", ".webp", ".mp4", ".gif"} |->
        CASE name = "a.png" -> <<"a", ".", "p", "n", "g">>
          [] name = "b.webp" -> <<"b", ".", "w", "e", "b", "p">>
          [] name = "c.mp4" -> <<"c", ".", "m", "p", "4">>
          [] name = "d.gif" -> <<"d", ".", "g", "i", "f">>
          [] name = "webp" -> <<"w", "e", "b", "p">>
          [] name = ".webp" -> <<".", "w", "e", "b", "p">>
          [] name = ".mp4" -> <<".", "m", "p", "4">>
          [] name = ".gif" -> <<".", "g", "i", "f">> ]

\* one entry of an images / gifs list of a node's outputs
Entries ==
    { [filename |-> "a.png", type |-> "output"],
      [filename |-> "b.webp", type |-> "output"],
      [filename |-> "c.mp4", type |-> "temp"],
      [filename |-> "d.gif", type |-> "output"],
      [filename |-> "b.webp", type |-> "input"],
      [filename |-> "webp", type |-> "temp"] }

\* an images or gifs property of a node's outputs with k entries; with no
\* entry it is the empty list or it is not there at all
ListsWith(k) ==
    { [has |-> TRUE, list |-> l] : l \in [1..k -> Entries] } \cup
    (IF k = 0 THEN { [has |-> FALSE, list |-> <<>>] } ELSE {})

\* the outputs of one node, holding t entries in all
GroupsWith(t) ==
    UNION { { [images |-> i, gifs |-> g] : i \in ListsWith(k), g \in ListsWith(t - k) } :
            k \in 0..t }

\* promptResult.outputs in Object.values order: n nodes holding t entries in all
RECURSIVE OutputsWith(_, _)
OutputsWith(n, t) ==
    IF n = 0
    THEN (IF t = 0 THEN {<<>>} ELSE {})
    ELSE UNION { { Append(o, g) : o \in OutputsWith(n - 1, t - k), g \in GroupsWith(k) } :
                 k \in 0..t }

\* all outputs mappings of at most n nodes and at most t entries
OutputsUpTo(n, t) == UNION { OutputsWith(i, j) : i \in 0..n, j \in 0..t }

\* the outputs the polled backend answers with: at most one node, one entry
PolledOutputs == OutputsUpTo(1, 1)

StatusLabels == {"success", "error", Undefined}

\* history[promptId] (line 338)
NoRecord ==
    [exists |-> FALSE, hasStatus |-> FALSE, completed |-> FALSE,
     status_str |-> Undefined, outputs |-> <<>>]

HistoryRecords ==
    {NoRecord} \cup
    { [NoRecord EXCEPT !.exists = TRUE] } \cup
    [exists : {TRUE}, hasStatus : {TRUE}, completed : {FALSE},
     status_str : StatusLabels, outputs : {<<>>}] \cup
    [exists : {TRUE}, hasStatus : {TRUE}, completed : {TRUE},
     status_str : StatusLabels, outputs : PolledOutputs]

NoOutput == [present |-> FALSE]

NotThrown == [present |-> FALSE]

Operations == {"health", "download", "uploadImage", "uploadAudio", "submit", "history", "fetch"}

-----------------------------------------------------------------------------
(* Helpers of the code *)

\* String.prototype.startsWith(category + '/') on a MIME type
StartsWith(mimeType, category) == mimeType[1] = category

HasKey(b, key) == \E i \in DOMAIN b : b[i].key = key

MimeOf(b, key) == b[CHOOSE i \in DOMAIN b : b[i].key = key].mimeType

\* Array.prototype.find over the property names (lines 177-179): the first
\* key whose MIME type starts with image/, Undefined when there is none
FindImageProperty(b) ==
    IF \E i \in DOMAIN b : StartsWith(b[i].mimeType, "image")
    THEN b[CHOOSE i \in DOMAIN b :
              /\ StartsWith(b[i].mimeType, "image")
              /\ \A j \in 1..(i-1) : ~StartsWith(b[j].mimeType, "image")].key
    ELSE Undefined

\* variant of Catch: the error is swallowed, nothing is rethrown
CatchSwallowed(kind) == [present |-> FALSE]

\* lines 439-445: the catch of the try block rethrows every error as one
\* NodeApiError whose message is the caught message behind a fixed prefix
Catch(kind) == [present |-> TRUE, message |-> <<"ComfyUI API Error: ", kind>>]

\* a throw inside the try block (line 134) and the catch it lands in
Throw(kind) ==
    /\ pc' = "failed"
    /\ error' = kind
    /\ thrown' = Catch(kind)

Count(op) == sent' = [sent EXCEPT ![op] = @ + 1]

-----------------------------------------------------------------------------
Init ==
    /\ pc = "checkConnection"
    /\ error = "none"
    /\ thrown = NotThrown
    /\ sent = [op \in Operations |-> 0]
    /\ binary = Unread
    /\ imageInfo = NoInfo
    /\ audioInfo = NoInfo
    /\ audioLookup = "none"
    /\ workflow = NoWorkflow
    /\ workflowData = <<>>
    /\ timeout = NoTimeout
    /\ attempts = 0
    /\ elapsed = 0
    /\ promptResult = NoRecord
    /\ videoOutput = NoOutput
    /\ result = NoOutput

\* variant of CheckConnection: the execution starts without the health check
CheckConnectionSkipped ==
    /\ pc = "checkConnection"
    /\ pc' = "prepareInput"
    /\ UNCHANGED <<error, thrown, sent, binary, imageInfo, audioInfo, audioLookup, workflow,
                   workflowData, timeout, attempts, elapsed, promptResult, videoOutput,
                   result>>

\* lines 135-142: GET /system_stats
CheckConnection ==
    /\ pc = "checkConnection"
    /\ Count("health")
    /\ \/ pc' = "prepareInput" /\ error' = error /\ thrown' = thrown
       \/ Throw("RequestFailed")
    /\ UNCHANGED <<binary, imageInfo, audioInfo, audioLookup, workflow, workflowData,
                   timeout, attempts, elapsed, promptResult, videoOutput, result>>

\* lines 147-156: inputType 'url', the image is downloaded
PrepareInputUrl ==
    /\ pc = "prepareInput"
    /\ Count("download")
    /\ \/ pc' = "uploadImage" /\ error' = error /\ thrown' = thrown
       \/ Throw("RequestFailed")
    /\ UNCHANGED <<binary, imageInfo, audioInfo, audioLookup, workflow, workflowData,
                   timeout, attempts, elapsed, promptResult, videoOutput, result>>

\* lines 171-189: the property the image is taken from, Undefined when the
\* named one is absent and no property holds an image
ActualPropertyName(b, binaryPropertyName) ==
    IF HasKey(b, binaryPropertyName) THEN binaryPropertyName ELSE FindImageProperty(b)

\* lines 157-204: inputType 'binary'
PrepareInputBinary ==
    /\ pc = "prepareInput"
    /\ \E b \in BinaryData, binaryPropertyName \in {"data", "extra"} :
         LET actualPropertyName == ActualPropertyName(b, binaryPropertyName) IN
         /\ binary' = b
         /\ IF actualPropertyName = Undefined
            THEN Throw("NoBinaryData")
            ELSE IF ~StartsWith(MimeOf(b, actualPropertyName), "image")
                 THEN Throw("InvalidInputMedia")
                 ELSE pc' = "uploadImage" /\ error' = error /\ thrown' = thrown
    /\ UNCHANGED <<sent, imageInfo, audioInfo, audioLookup, workflow, workflowData,
                   timeout, attempts, elapsed, promptResult, videoOutput, result>>

\* lines 205-209: any other inputType, the parameter is decoded as base64
PrepareInputBase64 ==
    /\ pc = "prepareInput"
    /\ pc' = "uploadImage"
    /\ UNCHANGED <<error, thrown, sent, binary, imageInfo, audioInfo, audioLookup, workflow,
                   workflowData, timeout, attempts, elapsed, promptResult, videoOutput,
                   result>>

\* variant of UploadImage: the execution goes on without uploading the image
UploadImageSkipped ==
    /\ pc = "uploadImage"
    /\ pc' = "optionalAudio"
    /\ UNCHANGED <<error, thrown, sent, binary, imageInfo, audioInfo, audioLookup, workflow,
                   workflowData, timeout, attempts, elapsed, promptResult, videoOutput,
                   result>>

\* lines 232-233 with uploadBuffer (lines 212-230): POST /upload/image; the
\* request fails, the body is no JSON, or it is a handle with a name
UploadImage ==
    /\ pc = "uploadImage"
    /\ Count("uploadImage")
    /\ \/ /\ \E name \in ImageNames : imageInfo' = [name |-> name]
          /\ pc' = "optionalAudio"
          /\ error' = error /\ thrown' = thrown
       \/ Throw("UploadFailed") /\ imageInfo' = imageInfo
    /\ UNCHANGED <<binary, audioInfo, audioLookup, workflow, workflowData,
                   timeout, attempts, elapsed, promptResult, videoOutput, result>>

\* variant of AudioProperty: when the named property is absent, the first
\* property whose MIME type starts with audio/ is taken
AudioPropertyWithFallback(b, audioBinaryPropertyName) ==
    IF HasKey(b, audioBinaryPropertyName) THEN audioBinaryPropertyName
    ELSE IF \E i \in DOMAIN b : StartsWith(b[i].mimeType, "audio")
    THEN b[CHOOSE i \in DOMAIN b :
              /\ StartsWith(b[i].mimeType, "audio")
              /\ \A j \in 1..(i-1) : ~StartsWith(b[j].mimeType, "audio")].key
    ELSE Undefined

\* lines 240-244: the property the audio is taken from, Undefined when the
\* named one is absent
AudioProperty(b, audioBinaryPropertyName) ==
    IF HasKey(b, audioBinaryPropertyName) THEN audioBinaryPropertyName ELSE Undefined

\* lines 235-253: the optional audio upload.  The input item is read here
\* when the image did not come from it.
OptionalAudio ==
    /\ pc = "optionalAudio"
    /\ \E audioBinaryPropertyName \in {"", "audio"}, b \in BinaryData :
         /\ binary # Unread => b = binary
         /\ IF audioBinaryPropertyName = ""
            THEN /\ audioLookup' = "unnamed"
                 /\ pc' = "parseWorkflow"
                 /\ UNCHANGED <<error, thrown, sent, binary, audioInfo>>
            ELSE /\ binary' = b
                 /\ IF AudioProperty(b, audioBinaryPropertyName) = Undefined
                    THEN /\ audioLookup' = "absent"
                         /\ pc' = "parseWorkflow"
                         /\ UNCHANGED <<error, thrown, sent, audioInfo>>
                    ELSE IF ~StartsWith(MimeOf(b, AudioProperty(b, audioBinaryPropertyName)),
                                        "audio")
                    THEN /\ audioLookup' = "notAudio"
                         /\ Throw("InvalidInputMedia")
                         /\ UNCHANGED <<sent, audioInfo>>
                    ELSE /\ audioLookup' = "uploaded"
                         /\ Count("uploadAudio")
                         /\ \/ /\ \E name \in AudioNames : audioInfo' = [name |-> name]
                               /\ pc' = "parseWorkflow"
                               /\ error' = error /\ thrown' = thrown
                            \/ Throw("UploadFailed") /\ audioInfo' = audioInfo
    /\ UNCHANGED <<imageInfo, workflow, workflowData, timeout, attempts, elapsed,
                   promptResult, videoOutput, result>>

\* lines 255-271: JSON.parse of the workflow parameter and the structure check.
\* The input item is not read after line 249.
ParseWorkflow ==
    /\ pc = "parseWorkflow"
    /\ binary' = Unread
    /\ \E w \in WorkflowTexts :
         IF w.kind = "malformed"
         THEN Throw("MalformedGraph") /\ UNCHANGED <<workflow, workflowData>>
         ELSE IF w.kind # "object"
         THEN Throw("MalformedGraph") /\ UNCHANGED <<workflow, workflowData>>
         ELSE /\ workflow' = w
              /\ workflowData' = w.nodes
              /\ pc' = "patchImage"
              /\ error' = error /\ thrown' = thrown
    /\ UNCHANGED <<sent, imageInfo, audioInfo, audioLookup, timeout, attempts, elapsed,
                   promptResult, videoOutput, result>>

\* variant of FirstTrue: the last accepted element instead of the first
LastTrue(flags) ==
    IF \E i \in DOMAIN flags : flags[i]
    THEN CHOOSE i \in DOMAIN flags : flags[i] /\ \A j \in DOMAIN flags : j > i => ~flags[j]
    ELSE 0

\* Array.prototype.find visits the elements in order and stops at the first
\* one its callback accepts: the index of the first TRUE, 0 when there is none
FirstTrue(flags) ==
    IF \E i \in DOMAIN flags : flags[i]
    THEN CHOOSE i \in DOMAIN flags : flags[i] /\ \A j \in 1..(i-1) : ~flags[j]
    ELSE 0

\* find with a callback that reads node.class_type (lines 274-276, 285-287);
\* accepts[i] is what the callback answers for nodes[i].  The index of the
\* first node the callback accepts, 0 when there is none, -1 when a null node
\* is visited first (reading a property of null throws a TypeError)
Find(nodes, accepts) ==
    LET first == FirstTrue([i \in DOMAIN nodes |-> nodes[i].isNull \/ accepts[i]])
    IN IF first = 0 THEN 0
       ELSE IF nodes[first].isNull THEN -1
       ELSE first

\* lines 280, 293, 295: node.inputs[key] = value
SetInput(nodes, index, key, value) ==
    [nodes EXCEPT ![index].inputs[key] = value]

\* variant of IsLoadImage: the role alone, inputs not looked at
IsLoadImageClassOnly(node) ==
    node.class_type = "LoadImage"

\* variant of IsLoadImage: the role and an inputs object, image not looked at
IsLoadImageAnyInputs(node) ==
    node.class_type = "LoadImage" /\ node.hasInputs

\* lines 274-276
IsLoadImage(node) ==
    /\ node.class_type = "LoadImage"
    /\ node.hasInputs
    /\ node.inputs.image # Undefined

\* lines 285-287
IsLoadAudio(node) ==
    /\ node.class_type = "LoadAudio"
    /\ node.hasInputs
    /\ (node.inputs.audio # Undefined \/ node.inputs.filename # Undefined)

\* lines 273-281
PatchImage ==
    /\ pc = "patchImage"
    /\ LET loadImageNode ==
             Find(workflowData, [i \in DOMAIN workflowData |-> IsLoadImage(workflowData[i])])
       IN
       IF loadImageNode = -1
       THEN Throw("TypeError") /\ UNCHANGED workflowData
       ELSE IF loadImageNode = 0
       THEN Throw("MissingImageNode") /\ UNCHANGED workflowData
       ELSE /\ workflowData' = SetInput(workflowData, loadImageNode, "image", imageInfo.name)
            /\ pc' = "patchAudio"
            /\ error' = error /\ thrown' = thrown
    /\ UNCHANGED <<sent, binary, imageInfo, audioInfo, audioLookup, workflow, timeout,
                   attempts, elapsed, promptResult, videoOutput, result>>

\* variant of AudioKey: filename preferred over audio
AudioKeyFilenameFirst(node) ==
    IF node.inputs.filename # Undefined THEN "filename" ELSE "audio"

\* lines 291-299: the key of the LoadAudio node that receives the name
AudioKey(node) ==
    IF node.inputs.audio # Undefined THEN "audio"
    ELSE IF node.inputs.filename # Undefined THEN "filename"
    ELSE "audio"

\* variant of AudioUploaded: the LoadAudio lookup runs without an asset too
AudioAlways(info) == TRUE

\* line 284: if (audioInfo)
AudioUploaded(info) == info # NoInfo

\* variant of PatchAudio: a graph without LoadAudio node is submitted as it is
PatchAudioLenient ==
    /\ pc = "patchAudio"
    /\ IF ~AudioUploaded(audioInfo)
       THEN /\ pc' = "submitPrompt"
            /\ UNCHANGED <<error, thrown, workflowData>>
       ELSE LET loadAudioNode ==
                    Find(workflowData,
                         [i \in DOMAIN workflowData |-> IsLoadAudio(workflowData[i])])
            IN
            IF loadAudioNode = -1
            THEN Throw("TypeError") /\ UNCHANGED workflowData
            ELSE IF loadAudioNode = 0
            THEN /\ pc' = "submitPrompt"
                 /\ UNCHANGED <<error, thrown, workflowData>>
            ELSE /\ workflowData' =
                      SetInput(workflowData, loadAudioNode,
                               AudioKey(workflowData[loadAudioNode]), audioInfo.name)
                 /\ pc' = "submitPrompt"
                 /\ error' = error /\ thrown' = thrown
    /\ UNCHANGED <<sent, binary, imageInfo, audioInfo, audioLookup, workflow, timeout,
                   attempts, elapsed, promptResult, videoOutput, result>>

\* lines 283-301
PatchAudio ==
    /\ pc = "patchAudio"
    /\ IF ~AudioUploaded(audioInfo)
       THEN /\ pc' = "submitPrompt"
            /\ UNCHANGED <<error, thrown, workflowData>>
       ELSE LET loadAudioNode ==
                    Find(workflowData,
                         [i \in DOMAIN workflowData |-> IsLoadAudio(workflowData[i])])
            IN
            IF loadAudioNode = -1
            THEN Throw("TypeError") /\ UNCHANGED workflowData
            ELSE IF loadAudioNode = 0
            THEN Throw("MissingAudioNode") /\ UNCHANGED workflowData
            ELSE /\ workflowData' =
                      SetInput(workflowData, loadAudioNode,
                               AudioKey(workflowData[loadAudioNode]), audioInfo.name)
                 /\ pc' = "submitPrompt"
                 /\ error' = error /\ thrown' = thrown
    /\ UNCHANGED <<sent, binary, imageInfo, audioInfo, audioLookup, workflow, timeout,
                   attempts, elapsed, promptResult, videoOutput, result>>

\* variant of SubmitPrompt: an answer without prompt_id is followed by a
\* second submission
SubmitPromptRetried ==
    /\ pc = "submitPrompt"
    /\ Count("submit")
    /\ \/ Throw("RequestFailed")
       \/ IF sent.submit = 0
          THEN pc' = "submitPrompt" /\ error' = error /\ thrown' = thrown
          ELSE Throw("SubmissionRejected")
       \/ pc' = "warmUp" /\ error' = error /\ thrown' = thrown
    /\ UNCHANGED <<binary, imageInfo, audioInfo, audioLookup, workflow, workflowData,
                   timeout, attempts, elapsed, promptResult, videoOutput, result>>

\* lines 303-320: POST /prompt with the patched graph; the request fails, the
\* answer has no prompt_id, or it has one
SubmitPrompt ==
    /\ pc = "submitPrompt"
    /\ Count("submit")
    /\ \/ Throw("RequestFailed")
       \/ Throw("SubmissionRejected")
       \/ pc' = "warmUp" /\ error' = error /\ thrown' = thrown
    /\ UNCHANGED <<binary, imageInfo, audioInfo, audioLookup, workflow, workflowData,
                   timeout, attempts, elapsed, promptResult, videoOutput, result>>

\* line 324: 60 * timeout
MaxAttempts(t) == [num |-> 60 * t.num, den |-> t.den]

\* variant of Below: attempts <= maxAttempts
BelowOrEqual(n, q) == n * q.den <= q.num

\* attempts < maxAttempts (line 326)
Below(n, q) == n * q.den < q.num

\* variant of AfterTimer: the timer resolves at once
AfterTimerSkipped(seconds, ms) == seconds

\* await new Promise(resolve => setTimeout(resolve, ms)) (lines 325, 328):
\* the seconds waited so far once a timer of ms milliseconds has run
AfterTimer(seconds, ms) == seconds + ms \div 1000

\* lines 322-325: the loop variables and the first timer.  The graph and the
\* upload handles are not read after the submission.
WarmUp ==
    /\ pc = "warmUp"
    /\ \E t \in Timeouts : timeout' = t
    /\ attempts' = 0
    /\ elapsed' = AfterTimer(elapsed, 5000)
    /\ pc' = "poll"
    /\ workflow' = NoWorkflow
    /\ workflowData' = <<>>
    /\ imageInfo' = NoInfo
    /\ audioInfo' = NoInfo
    /\ UNCHANGED <<error, thrown, sent, binary, audioLookup, promptResult, videoOutput, result>>

\* String.prototype.endsWith
EndsWith(str, suffix) ==
    LET s == Chars[str]
        t == Chars[suffix]
    IN /\ Len(s) >= Len(t)
       /\ SubSeq(s, Len(s) - Len(t) + 1, Len(s)) = t

\* line 361: nodeOutput.images || nodeOutput.gifs || []
GroupEntries(nodeOutput) ==
    IF nodeOutput.images.has THEN nodeOutput.images.list
    ELSE IF nodeOutput.gifs.has THEN nodeOutput.gifs.list
    ELSE <<>>

\* Array.prototype.flatMap over Object.values(promptResult.outputs)
RECURSIVE FlatMap(_)
FlatMap(outputs) ==
    IF outputs = <<>> THEN <<>>
    ELSE GroupEntries(Head(outputs)) \o FlatMap(Tail(outputs))

\* line 362
IsMedia(image) == image.type = "output" \/ image.type = "temp"

\* lines 375-379
IsVideo(output) ==
    \/ EndsWith(output.filename, ".webp")
    \/ EndsWith(output.filename, ".mp4")
    \/ EndsWith(output.filename, ".gif")

\* lines 360-366
MediaOutputs(outputs) ==
    LET kept == SelectSeq(FlatMap(outputs), IsMedia) IN
    [i \in DOMAIN kept |->
        [filename |-> kept[i].filename, type |-> kept[i].type,
         url |-> <<"/view", kept[i].filename, "", kept[i].type>>]]

\* lines 375-379
VideoOutputs(mediaOutputs) == SelectSeq(mediaOutputs, IsVideo)

\* variant of FirstOutput: the last video output instead of the first
LastOutput(videoOutputs) == videoOutputs[Len(videoOutputs)]

\* line 388
FirstOutput(videoOutputs) == videoOutputs[1]

\* lines 356-388: output resolution on the record that reported completion
Resolve(record) ==
    LET mediaOutputs == MediaOutputs(record.outputs)
        videoOutputs == VideoOutputs(mediaOutputs)
    IN IF Len(mediaOutputs) = 0
       THEN Throw("NoMediaOutputs") /\ UNCHANGED videoOutput
       ELSE IF Len(videoOutputs) = 0
       THEN Throw("NoVideoOutputs") /\ UNCHANGED videoOutput
       ELSE /\ videoOutput' = [present |-> TRUE, output |-> FirstOutput(videoOutputs)]
            /\ pc' = "fetchOutput"
            /\ error' = error /\ thrown' = thrown

\* variant of Verdict: status_str is not looked at
VerdictIgnoringLabel(record) ==
    IF record.exists /\ record.hasStatus /\ record.completed THEN "resolve" ELSE "continue"

\* variant of Verdict: only the label "success" counts as success
VerdictSuccessOnly(record) ==
    IF ~record.exists THEN "continue"
    ELSE IF ~record.hasStatus THEN "continue"
    ELSE IF record.completed
    THEN (IF record.status_str = "success" THEN "resolve" ELSE "error")
    ELSE "continue"

\* variant of Verdict: a record without status is an error
VerdictStatusRequired(record) ==
    IF ~record.exists THEN "continue"
    ELSE IF ~record.hasStatus THEN "error"
    ELSE IF record.completed
    THEN (IF record.status_str = "error" THEN "error" ELSE "resolve")
    ELSE "continue"

\* lines 338-354: what the loop does with history[promptId]
Verdict(record) ==
    IF ~record.exists THEN "continue"
    ELSE IF ~record.hasStatus THEN "continue"
    ELSE IF record.completed
    THEN (IF record.status_str = "error" THEN "error" ELSE "resolve")
    ELSE "continue"

\* variant of PollTick: attempts++ of line 329 is left out
PollTickNotCounted ==
    /\ pc = "poll"
    /\ Below(attempts, MaxAttempts(timeout))
    /\ elapsed' = AfterTimer(elapsed, 1000)
    /\ attempts' = attempts
    /\ Count("history")
    /\ \/ Throw("RequestFailed") /\ UNCHANGED <<promptResult, videoOutput>>
       \/ \E record \in HistoryRecords :
            /\ promptResult' = record
            /\ IF Verdict(record) = "continue"
               THEN pc' = "poll" /\ UNCHANGED <<error, thrown, videoOutput>>
               ELSE IF Verdict(record) = "error"
               THEN Throw("GenerationFailed") /\ UNCHANGED videoOutput
               ELSE Resolve(record)
    /\ UNCHANGED <<binary, imageInfo, audioInfo, audioLookup, workflow, workflowData,
                   timeout, result>>

\* lines 326-388: one turn of the loop, from the test of the loop condition to
\* the next await: the 1 s timer, the GET /history query and what its answer
\* leads to
PollTick ==
    /\ pc = "poll"
    /\ Below(attempts, MaxAttempts(timeout))
    /\ elapsed' = AfterTimer(elapsed, 1000)
    /\ attempts' = attempts + 1
    /\ Count("history")
    /\ \/ Throw("RequestFailed") /\ UNCHANGED <<promptResult, videoOutput>>
       \/ \E record \in HistoryRecords :
            /\ promptResult' = record
            /\ IF Verdict(record) = "continue"
               THEN pc' = "poll" /\ UNCHANGED <<error, thrown, videoOutput>>
               ELSE IF Verdict(record) = "error"
               THEN Throw("GenerationFailed") /\ UNCHANGED videoOutput
               ELSE Resolve(record)
    /\ UNCHANGED <<binary, imageInfo, audioInfo, audioLookup, workflow, workflowData,
                   timeout, result>>

\* lines 326 and 438: the loop condition fails
PollTimeout ==
    /\ pc = "poll"
    /\ ~Below(attempts, MaxAttempts(timeout))
    /\ Throw("GenerationTimeout")
    /\ UNCHANGED <<sent, binary, imageInfo, audioInfo, audioLookup, workflow, workflowData,
                   timeout, attempts, elapsed, promptResult, videoOutput, result>>

\* variant of MimeType: the default of line 407 for every file name
MimeTypeDefault(filename) == "image/webp"

\* lines 406-416
MimeType(filename) ==
    IF EndsWith(filename, ".mp4") THEN "video/mp4"
    ELSE IF EndsWith(filename, ".gif") THEN "image/gif"
    ELSE "image/webp"

\* lines 406-416
FileExtension(filename) ==
    IF EndsWith(filename, ".mp4") THEN "mp4"
    ELSE IF EndsWith(filename, ".gif") THEN "gif"
    ELSE "webp"

\* lines 390-435: GET of the selected output's url; the request fails, the
\* answer is a 404, or the bytes are returned
FetchOutput ==
    /\ pc = "fetchOutput"
    /\ Count("fetch")
    /\ \/ Throw("RequestFailed") /\ UNCHANGED result
       \/ Throw("OutputNotFound") /\ UNCHANGED result
       \/ /\ result' = [present |-> TRUE,
                        fileName |-> videoOutput.output.filename,
                        mimeType |-> MimeType(videoOutput.output.filename),
                        fileExtension |-> FileExtension(videoOutput.output.filename),
                        status |-> [completed |-> promptResult.completed,
                                    status_str |-> promptResult.status_str]]
          /\ pc' = "returned"
          /\ error' = error /\ thrown' = thrown
    /\ UNCHANGED <<binary, imageInfo, audioInfo, audioLookup, workflow, workflowData,
                   timeout, attempts, elapsed, promptResult, videoOutput>>

Next ==
    \/ CheckConnection
    \/ PrepareInputUrl
    \/ PrepareInputBinary
    \/ PrepareInputBase64
    \/ UploadImage
    \/ OptionalAudio
    \/ ParseWorkflow
    \/ PatchImage
    \/ PatchAudio
    \/ SubmitPrompt
    \/ WarmUp
    \/ PollTick
    \/ PollTimeout
    \/ FetchOutput

Spec == Init /\ [][Next]_vars

\* the execution under the assumption that every awaited call settles: the
\* continuation of an await runs once its promise has settled
SpecLive == Init /\ [][Next]_vars /\ WF_vars(Next)

-----------------------------------------------------------------------------
(* Output resolution on its own: every outputs mapping within the bounds is  *)
(* handed to the code of lines 356-435.                                      *)

InitResolve ==
    /\ pc = "resolve"
    /\ error = "none"
    /\ thrown = NotThrown
    /\ sent = [op \in Operations |-> 0]
    /\ binary = Unread
    /\ imageInfo = NoInfo
    /\ audioInfo = NoInfo
    /\ audioLookup = "none"
    /\ workflow = NoWorkflow
    /\ workflowData = <<>>
    /\ timeout = NoTimeout
    /\ attempts = 0
    /\ elapsed = 0
    /\ promptResult \in [exists : {TRUE}, hasStatus : {TRUE}, completed : {TRUE},
                         status_str : {"success"},
                         outputs : OutputsUpTo(MaxGroups, MaxEntries)]
    /\ videoOutput = NoOutput
    /\ result = NoOutput

\* lines 356-388 applied to promptResult
ResolveStep ==
    /\ pc = "resolve"
    /\ Resolve(promptResult)
    /\ UNCHANGED <<sent, binary, imageInfo, audioInfo, audioLookup, workflow, workflowData,
                   timeout, attempts, elapsed, promptResult, result>>

NextResolve ==
    \/ ResolveStep
    \/ FetchOutput

SpecResolve == InitResolve /\ [][NextResolve]_vars

-----------------------------------------------------------------------------
(* Properties *)

\* the poll loop has been entered: the 5 s timer of line 325 has run
LoopEntered == elapsed >= 5

\* a record that reports completion (line 349)
Done(record) == record.exists /\ record.hasStatus /\ record.completed

\* the least whole number n >= 0 with n >= 60 * t, the number of turns after
\* which attempts < 60 * t fails
Cap(t) ==
    IF t.num <= 0 THEN 0 ELSE (60 * t.num + t.den - 1) \div t.den

\* C1 as stated: the number of status queries never exceeds 60 x
\* timeoutMinutes, and the timeout error is raised only when the number of
\* queries is 60 x timeoutMinutes and none observed completed=true, for every
\* timeoutMinutes.
C1_CapIsSixtyTimesTimeout ==
    LoopEntered =>
        /\ sent.history * timeout.den <= 60 * timeout.num
        /\ error = "GenerationTimeout" =>
               /\ sent.history * timeout.den = 60 * timeout.num
               /\ ~Done(promptResult)

\* C1 amended: the number of status queries never exceeds the attempt cap,
\* the least whole number n >= 0 with n >= 60 x timeoutMinutes (60 x
\* timeoutMinutes itself for whole timeoutMinutes >= 0); the timeout error is
\* raised exactly when the number of queries has reached the cap and none of
\* them observed completed=true, never after fewer queries; a completion
\* observed on the last allowed query is handled as completion.
C1_PollCap ==
    LoopEntered =>
        /\ sent.history <= Cap(timeout)
        /\ error = "GenerationTimeout" =>
               /\ sent.history = Cap(timeout)
               /\ ~Done(promptResult)
        /\ (pc = "poll" /\ sent.history = Cap(timeout)) =>
               /\ ~ENABLED PollTick
               /\ ENABLED PollTimeout
        /\ (pc = "poll" /\ sent.history < Cap(timeout)) =>
               /\ ENABLED PollTick
               /\ ~ENABLED PollTimeout
        /\ Done(promptResult) => error # "GenerationTimeout"

\* C1 witness: with timeoutMinutes = 1 the 60th query observes completion and
\* the execution goes on to fetch the output
C1_LastQueryCompletes ==
    /\ timeout = [num |-> 1, den |-> 1]
    /\ sent.history = 60
    /\ Done(promptResult)
    /\ pc = "fetchOutput"

\* C2: a status query whose record has completed=true and label "error" ends
\* the loop with GenerationFailed, and nothing happens afterwards: no further
\* status query, no output resolution, no output fetch.
C2_CompletedError ==
    /\ (Done(promptResult) /\ promptResult.status_str = "error") =>
           (pc = "failed" /\ error = "GenerationFailed")
    /\ error = "GenerationFailed" =>
           /\ Done(promptResult)
           /\ promptResult.status_str = "error"
           /\ pc = "failed"
           /\ sent.history = attempts
           /\ sent.fetch = 0
           /\ videoOutput = NoOutput
           /\ result = NoOutput
           /\ ~ENABLED Next

\* C2 witness: the third query is the first to report completion, with label
\* "error"
C2_ErrorOnThirdQuery ==
    /\ error = "GenerationFailed"
    /\ sent.history = 3

\* C3: a status query whose record has completed=true and any label other
\* than "error" (a missing label too) stops the polling: no further status
\* query can be issued, and output resolution has run on exactly that record.
C3_CompletedSuccess ==
    (Done(promptResult) /\ promptResult.status_str # "error") =>
        LET mediaOutputs == MediaOutputs(promptResult.outputs)
            videoOutputs == VideoOutputs(mediaOutputs)
        IN /\ pc \in {"fetchOutput", "returned", "failed"}
           /\ ~ENABLED PollTick
           /\ sent.history = attempts
           /\ error \notin {"GenerationFailed", "GenerationTimeout"}
           /\ Len(mediaOutputs) = 0 => error = "NoMediaOutputs"
           /\ (Len(mediaOutputs) > 0 /\ Len(videoOutputs) = 0) => error = "NoVideoOutputs"
           /\ Len(videoOutputs) > 0 =>
                  /\ videoOutput = [present |-> TRUE, output |-> videoOutputs[1]]
                  /\ error \in {"none", "RequestFailed", "OutputNotFound"}

\* C3 witness: the second query reports completion without a label and its
\* output is about to be fetched
C3_UnlabelledCompletion ==
    /\ Done(promptResult)
    /\ promptResult.status_str = Undefined
    /\ sent.history = 2
    /\ pc = "fetchOutput"

\* C4: a status query that finds no record, a record without a status, or
\* completed=false leaves the loop polling: no error, no output, one attempt
\* consumed per query; after such an answer the execution can only fail by
\* the timeout (or by a later query that fails as a request).
C4_StaysPolling ==
    /\ sent.history = attempts
    /\ (sent.history > 0 /\ ~Done(promptResult)) =>
           /\ pc \in {"poll", "failed"}
           /\ pc = "poll" => error = "none"
           /\ pc = "failed" => error \in {"GenerationTimeout", "RequestFailed"}
           /\ sent.fetch = 0
           /\ videoOutput = NoOutput
           /\ result = NoOutput

\* C4 witness: three queries answered without a record, without a status and
\* with completed=false leave the loop polling
C4_ThreeIdleQueries ==
    /\ pc = "poll"
    /\ attempts = 3
    /\ promptResult.exists
    /\ ~promptResult.hasStatus

\* the workflow parameter parsed to an object and the graph is still at hand
Parsed == workflow.kind = "object"

\* every node of the graph is an object
WellFormed(nodes) == \A i \in DOMAIN nodes : ~nodes[i].isNull

\* the eligible image-input nodes of a graph: class_type LoadImage with a
\* defined image input
EligibleImageNodes(nodes) ==
    { i \in DOMAIN nodes :
        /\ ~nodes[i].isNull
        /\ nodes[i].class_type = "LoadImage"
        /\ nodes[i].hasInputs
        /\ nodes[i].inputs["image"] # Undefined }

\* the eligible audio-input nodes of a graph: class_type LoadAudio with a
\* defined audio or filename input
EligibleAudioNodes(nodes) ==
    { i \in DOMAIN nodes :
        /\ ~nodes[i].isNull
        /\ nodes[i].class_type = "LoadAudio"
        /\ nodes[i].hasInputs
        /\ \E k \in {"audio", "filename"} : nodes[i].inputs[k] # Undefined }

Least(S) == CHOOSE i \in S : \A j \in S : i <= j

\* C5: for a graph of objects with exactly one eligible image-input node the
\* image patch succeeds, sets that node's image input to the name of the
\* handle the upload returned, and leaves every other node and every other
\* input as the graph text had them.
C5_PatchImage ==
    LET nodes == workflow.nodes
        eligible == EligibleImageNodes(nodes)
    IN (Parsed /\ WellFormed(nodes) /\ Cardinality(eligible) = 1) =>
          /\ error \notin {"MissingImageNode", "TypeError"}
          /\ (pc = "patchAudio" \/ (pc \in {"submitPrompt", "warmUp"} /\ audioInfo = NoInfo)) =>
                 /\ Len(workflowData) = Len(nodes)
                 /\ \A i \in DOMAIN nodes :
                        workflowData[i] =
                            IF i \in eligible
                            THEN [nodes[i] EXCEPT !.inputs["image"] = imageInfo.name]
                            ELSE nodes[i]

\* C5 witness: the second of two LoadImage nodes is the only one with an image
\* input, the upload returned a name other than the file name it was sent
\* under, and the image patch has run
C5_StoredNamePatched ==
    /\ pc = "patchAudio"
    /\ Len(workflow.nodes) = 2
    /\ WellFormed(workflow.nodes)
    /\ workflow.nodes[1].class_type = "LoadImage"
    /\ EligibleImageNodes(workflow.nodes) = {2}
    /\ imageInfo.name = "stored.png"
    /\ workflowData[2].inputs["image"] = "stored.png"

\* the workflow parameter can be w: it is the text that was parsed, or the
\* execution has ended before parsing any text
WorkflowCouldBe(w) ==
    \/ workflow = w
    \/ workflow = NoWorkflow /\ sent.submit = 0 /\ pc = "failed" /\ error # "MalformedGraph"

\* C6 as stated: whatever audio attachment is configured, an execution on a
\* graph with zero eligible image-input nodes that has uploaded the image
\* fails with MissingImageNode and submits no job.
C6_AlwaysMissingImageNode ==
    (/\ pc = "failed"
     /\ sent.uploadImage = 1
     /\ error # "UploadFailed"
     /\ \E w \in WorkflowTexts :
            /\ w.kind = "object"
            /\ EligibleImageNodes(w.nodes) = {}
            /\ WorkflowCouldBe(w))
    => (error = "MissingImageNode" /\ sent.submit = 0)

\* C6 amended: once the uploads have succeeded and the text parsed to a
\* graph of objects, a graph with zero eligible image-input nodes fails with
\* MissingImageNode, whether or not an audio asset was uploaded and whether
\* or not the graph has an audio node; the graph is left as parsed and no
\* job is submitted.
C6_MissingImageNode ==
    LET nodes == workflow.nodes IN
    (Parsed /\ WellFormed(nodes) /\ EligibleImageNodes(nodes) = {}) =>
        \/ pc = "patchImage"
        \/ /\ pc = "failed"
           /\ error = "MissingImageNode"
           /\ workflowData = nodes
           /\ sent.submit = 0
           /\ sent.history = 0

\* C6 witness: an audio asset was uploaded and the graph has neither an image
\* nor an audio node; the failure is MissingImageNode
C6_AudioUploadedNoNodes ==
    /\ error = "MissingImageNode"
    /\ audioInfo # NoInfo
    /\ Len(workflow.nodes) = 2
    /\ EligibleAudioNodes(workflow.nodes) = {}

\* C7 as stated: a graph that is submitted has exactly one eligible
\* image-input node.
C7_ExactlyOneImageNode ==
    (sent.submit >= 1 /\ Parsed) => Cardinality(EligibleImageNodes(workflow.nodes)) = 1

\* C7 amended: a graph that is submitted has at least one eligible
\* image-input node; when it has two or more, the first in iteration order
\* carries the uploaded name and the others are submitted as the text had
\* them.
C7_AtLeastOneImageNode ==
    (sent.submit >= 1 /\ Parsed) =>
        LET nodes == workflow.nodes
            eligible == EligibleImageNodes(nodes)
        IN /\ eligible # {}
           /\ workflowData[Least(eligible)].inputs["image"] = imageInfo.name
           /\ \A i \in eligible \ {Least(eligible)} : workflowData[i] = nodes[i]
           /\ \A i \in 1..(Least(eligible) - 1) : ~nodes[i].isNull

\* C7 witness: a graph with two eligible image-input nodes has been submitted
C7_TwoImageNodesSubmitted ==
    /\ pc = "warmUp"
    /\ sent.submit = 1
    /\ Cardinality(EligibleImageNodes(workflow.nodes)) = 2

\* C8: when an audio asset was uploaded and the audio patch has run, the first
\* eligible audio node has exactly one input rewritten to the asset's name:
\* audio when audio is defined (also next to filename), filename otherwise;
\* its other inputs and its class are as the graph text had them.
C8_AudioKeyWritten ==
    (Parsed /\ audioInfo # NoInfo /\ (pc \in {"submitPrompt", "warmUp"} \/ sent.submit >= 1)) =>
        LET nodes == workflow.nodes
            eligible == EligibleAudioNodes(nodes)
        IN /\ eligible # {}
           /\ LET before == nodes[Least(eligible)]
                  after == workflowData[Least(eligible)]
              IN after =
                   IF before.inputs["audio"] # Undefined
                   THEN [before EXCEPT !.inputs["audio"] = audioInfo.name]
                   ELSE [before EXCEPT !.inputs["filename"] = audioInfo.name]

\* C8 witness: the audio node has both an audio and a filename input and the
\* audio patch has run with an uploaded asset
C8_BothKeysPresent ==
    /\ pc = "submitPrompt"
    /\ audioInfo.name = "stored.mp3"
    /\ EligibleAudioNodes(workflow.nodes) # {}
    /\ LET before == workflow.nodes[Least(EligibleAudioNodes(workflow.nodes))]
       IN before.inputs["audio"] # Undefined /\ before.inputs["filename"] # Undefined

\* C9: MissingAudioNode is raised only after an audio asset was uploaded, on
\* a graph without eligible audio node, and then always (once the image patch
\* succeeded); without an audio asset (no property name, or the named
\* property absent) the audio patch is skipped: no LoadAudio node is touched
\* and MissingAudioNode is not raised, whatever the graph holds.
C9_MissingAudioNode ==
    /\ error = "MissingAudioNode" =>
           /\ audioLookup = "uploaded"
           /\ sent.uploadAudio = 1
           /\ audioInfo # NoInfo
           /\ EligibleAudioNodes(workflow.nodes) = {}
           /\ sent.submit = 0
    /\ (Parsed /\ audioInfo # NoInfo /\ EligibleAudioNodes(workflow.nodes) = {}
          /\ pc \notin {"patchImage", "patchAudio"}) =>
           (pc = "failed" /\ error \in {"MissingImageNode", "MissingAudioNode", "TypeError"})
    /\ audioLookup \in {"unnamed", "absent"} =>
           /\ sent.uploadAudio = 0
           /\ error # "MissingAudioNode"
           /\ (Parsed /\ pc \in {"submitPrompt", "warmUp"}) =>
                  /\ audioInfo = NoInfo
                  /\ \A i \in DOMAIN workflow.nodes :
                         workflow.nodes[i].class_type # "LoadImage" =>
                             workflowData[i] = workflow.nodes[i]

\* C9 witness: the named audio property is absent, the graph has no LoadAudio
\* node, and the graph has been submitted
C9_NoAudioNoNodeSubmitted ==
    /\ audioLookup = "absent"
    /\ pc = "warmUp"
    /\ sent.submit = 1
    /\ \A i \in DOMAIN workflow.nodes : workflow.nodes[i].class_type # "LoadAudio"

\* kinds and file names the resolution admits, listed one by one
KindAdmitted(entry) == entry.type \in {"output", "temp"}

NameAdmitted(entry) == entry.filename \in {"b.webp", "c.mp4", "d.gif"}

\* C10: output resolution selects the first candidate, in flatten order, whose
\* kind is "output" or "temp" and whose file name ends in .webp, .mp4 or .gif;
\* it fails with NoMediaOutputs when no candidate has such a kind and with
\* NoVideoOutputs when some have but none of them has such a name.
C10_FirstVideoOutput ==
    pc # "resolve" =>
        LET candidates == FlatMap(promptResult.outputs)
            media == { i \in DOMAIN candidates : KindAdmitted(candidates[i]) }
            video == { i \in media : NameAdmitted(candidates[i]) }
        IN /\ media = {} => (pc = "failed" /\ error = "NoMediaOutputs")
           /\ (media # {} /\ video = {}) => (pc = "failed" /\ error = "NoVideoOutputs")
           /\ video # {} =>
                  /\ error \in {"none", "RequestFailed", "OutputNotFound"}
                  /\ videoOutput.present
                  /\ videoOutput.output.filename = candidates[Least(video)].filename
                  /\ videoOutput.output.type = candidates[Least(video)].type

\* C10 witness: the candidates are a.png and b.webp, both of kind output, and
\* b.webp is selected
C10_WebpAfterPng ==
    /\ pc = "fetchOutput"
    /\ FlatMap(promptResult.outputs) =
           << [filename |-> "a.png", type |-> "output"],
              [filename |-> "b.webp", type |-> "output"] >>
    /\ videoOutput.output.filename = "b.webp"

\* the entries of both lists of every node, images before gifs, in
\* Object.values order
RECURSIVE BothLists(_)
BothLists(outputs) ==
    IF outputs = <<>> THEN <<>>
    ELSE Head(outputs).images.list \o Head(outputs).gifs.list \o BothLists(Tail(outputs))

\* C11 as stated: the candidates of output resolution are the entries of the
\* images list and of the gifs list of every node, so whenever one of them has
\* an admitted kind and an admitted file name, resolution selects an output
\* (a video entry found only in gifs is selectable also when the same node has
\* an images list, empty or not).
C11_BothListsAreCandidates ==
    pc # "resolve" =>
        LET claimed == BothLists(promptResult.outputs) IN
        (\E i \in DOMAIN claimed : KindAdmitted(claimed[i]) /\ NameAdmitted(claimed[i])) =>
            /\ videoOutput.present
            /\ error \notin {"NoMediaOutputs", "NoVideoOutputs"}

\* the execution is over: execute has returned or has thrown
Ended == pc \in {"returned", "failed"}

\* C12: an execution ends in exactly one of two outcomes, a returned item or
\* one thrown error, never both and never a returned item after a failure;
\* the thrown error has the same form whatever step failed (the prefixed
\* message of the catch); an execution that has not ended can go on, and from
\* each step that can fail (health check, input validation, upload, audio
\* lookup on an item with the named attachment, parse, submission, poll,
\* output fetch) the error outcome is one step away; patch
\* failures, generation errors, the timeout and resolution failures end in the
\* same outcome.
C12_TwoOutcomes ==
    /\ result.present <=> pc = "returned"
    /\ thrown.present <=> pc = "failed"
    /\ thrown.present <=> error # "none"
    /\ ~(result.present /\ thrown.present)
    /\ thrown.present => thrown.message = <<"ComfyUI API Error: ", error>>
    /\ Ended <=> ~ENABLED Next
    /\ pc = "checkConnection" => ENABLED (CheckConnection /\ thrown'.present)
    /\ pc = "prepareInput" =>
           /\ ENABLED (PrepareInputUrl /\ thrown'.present)
           /\ ENABLED (PrepareInputBinary /\ error' = "NoBinaryData" /\ thrown'.present)
           /\ ENABLED (PrepareInputBinary /\ error' = "InvalidInputMedia" /\ thrown'.present)
    /\ pc = "uploadImage" => ENABLED (UploadImage /\ thrown'.present)
    /\ (pc = "optionalAudio" /\ (binary = Unread \/ HasKey(binary, "audio"))) =>
           ENABLED (OptionalAudio /\ thrown'.present)
    /\ pc = "parseWorkflow" => ENABLED (ParseWorkflow /\ thrown'.present)
    /\ pc = "submitPrompt" =>
           /\ ENABLED (SubmitPrompt /\ error' = "RequestFailed" /\ thrown'.present)
           /\ ENABLED (SubmitPrompt /\ error' = "SubmissionRejected" /\ thrown'.present)
    /\ (pc = "poll" /\ ENABLED PollTick) =>
           \A kind \in {"RequestFailed", "GenerationFailed", "NoMediaOutputs", "NoVideoOutputs"} :
               ENABLED (PollTick /\ error' = kind /\ thrown'.present)
    /\ (pc = "poll" /\ ~ENABLED PollTick) =>
           ENABLED (PollTimeout /\ error' = "GenerationTimeout" /\ thrown'.present)
    /\ pc = "fetchOutput" =>
           /\ ENABLED (FetchOutput /\ error' = "RequestFailed" /\ thrown'.present)
           /\ ENABLED (FetchOutput /\ error' = "OutputNotFound" /\ thrown'.present)
    /\ error \in {"MissingImageNode", "MissingAudioNode", "TypeError"} =>
           (thrown.present /\ sent.submit = 0)

\* C12 witness: an output was selected and its fetch answered 404; the
\* execution has thrown the wrapped error and returned nothing
C12_FetchFailureReported ==
    /\ videoOutput.present
    /\ sent.fetch = 1
    /\ error = "OutputNotFound"
    /\ thrown = [present |-> TRUE, message |-> <<"ComfyUI API Error: ", "OutputNotFound">>]
    /\ ~result.present

\* the MIME type and extension label that belong to each admitted file name,
\* listed one by one
LabelsOf(filename) ==
    CASE filename = "b.webp" -> <<"image/webp", "webp">>
      [] filename = "c.mp4" -> <<"video/mp4", "mp4">>
      [] filename = "d.gif" -> <<"image/gif", "gif">>
      [] OTHER -> <<"none", "none">>

\* C13: a returned item carries the selected output's file name, and its MIME
\* type and extension label are the ones of that file name's extension: .webp
\* gives image/webp and webp, .mp4 gives video/mp4 and mp4, .gif gives
\* image/gif and gif; no other pair is ever returned.
C13_MimeFromExtension ==
    result.present =>
        /\ videoOutput.present
        /\ result.fileName = videoOutput.output.filename
        /\ <<result.mimeType, result.fileExtension>> = LabelsOf(result.fileName)
        /\ <<result.mimeType, result.fileExtension>> \in
               { <<"image/webp", "webp">>, <<"video/mp4", "mp4">>, <<"image/gif", "gif">> }

\* C13 witness: c.mp4 was selected behind a .png candidate and is returned as
\* video/mp4
C13_Mp4Returned ==
    /\ pc = "returned"
    /\ Len(FlatMap(promptResult.outputs)) = 2
    /\ result.fileName = "c.mp4"
    /\ result.mimeType = "video/mp4"
    /\ result.fileExtension = "mp4"

\* C14 as stated: the k-th status query (k >= 1) is issued after 5 + (k - 1)
\* time-units of waiting since the submission returned, the first one after
\* the warm-up delay of 5.
C14_FirstQueryAfterFive ==
    sent.history >= 1 => elapsed = 5 + (sent.history - 1)

\* C14 amended: after the submission the execution waits 5 time-units once
\* and then 1 time-unit before every status query, the first included: the
\* k-th status query (k >= 1) is issued after 5 + k time-units of waiting, the
\* first after 6, and two consecutive queries are 1 time-unit of waiting apart.
C14_QueryTimes ==
    /\ sent.submit = 0 => elapsed = 0
    /\ pc = "warmUp" => elapsed = 0
    /\ (LoopEntered /\ sent.history = 0) => elapsed = 5
    /\ sent.history >= 1 => elapsed = 5 + sent.history
    /\ sent.history >= 1 => LoopEntered

\* C14 witness: the first status query has been issued and answered without
\* completion, 6 time-units of waiting after the submission
C14_FirstQueryAfterSix ==
    /\ pc = "poll"
    /\ sent.history = 1
    /\ elapsed = 6

\* the position of a statement in the order of the code
Rank(position) ==
    CASE position = "checkConnection" -> 0
      [] position = "prepareInput" -> 1
      [] position = "uploadImage" -> 2
      [] position = "optionalAudio" -> 3
      [] position = "parseWorkflow" -> 4
      [] position = "patchImage" -> 5
      [] position = "patchAudio" -> 6
      [] position = "submitPrompt" -> 7
      [] position = "warmUp" -> 8
      [] position = "poll" -> 9
      [] position = "fetchOutput" -> 10
      [] OTHER -> 11

\* the number of requests issued so far
Requests(counts) ==
    counts.health + counts.download + counts.uploadImage + counts.uploadAudio
        + counts.submit + counts.history + counts.fetch

\* what holds in every state for the order upload, patch, submit, poll, fetch
InOrder ==
    /\ (pc = "submitPrompt" \/ sent.submit >= 1) =>
           /\ sent.uploadImage = 1
           /\ error # "UploadFailed"
           /\ audioLookup \in {"unnamed", "absent", "uploaded"}
           /\ sent.uploadAudio = (IF audioLookup = "uploaded" THEN 1 ELSE 0)
    /\ (Parsed /\ (pc = "submitPrompt" \/ sent.submit >= 1)) =>
           /\ imageInfo.name \in ImageNames
           /\ \E i \in DOMAIN workflowData : workflowData[i].inputs["image"] = imageInfo.name
           /\ sent.uploadAudio = 1 =>
                  /\ audioInfo.name \in AudioNames
                  /\ \E i \in DOMAIN workflowData, k \in {"audio", "filename"} :
                         workflowData[i].inputs[k] = audioInfo.name
    /\ (sent.submit = 0 \/ error = "SubmissionRejected") => sent.history = 0
    /\ (pc = "submitPrompt" \/ Rank(pc) < Rank("submitPrompt")) => sent.submit = 0
    /\ sent.history >= 1 => (sent.submit = 1 /\ LoopEntered)
    /\ sent.fetch >= 1 =>
           /\ sent.history >= 1
           /\ Done(promptResult)
           /\ videoOutput.present
    /\ (pc = "fetchOutput" \/ result.present) => Done(promptResult)

\* C15: the requests of an execution are issued one at a time, in the order
\* of the code: no step issues more than one request and no step goes back to
\* an earlier statement; a submission is sent only after the image upload
\* (and the audio upload, if any) returned a handle and the graph carries the
\* returned names; a status query is sent only after a submission that was
\* answered with a job id; the output fetch is sent only after a status query
\* observed completed=true.
C15_StrictOrder ==
    /\ []InOrder
    /\ [][/\ Requests(sent') <= Requests(sent) + 1
          /\ \A op \in Operations : sent'[op] >= sent[op]
          /\ Rank(pc') >= Rank(pc)
          /\ sent'.uploadImage > sent.uploadImage => pc = "uploadImage"
          /\ sent'.uploadAudio > sent.uploadAudio => pc = "optionalAudio"
          /\ sent'.submit > sent.submit => pc = "submitPrompt"
          /\ sent'.history > sent.history => pc = "poll"
          /\ sent'.fetch > sent.fetch => pc = "fetchOutput"]_vars

\* C15 witness: an execution with an audio upload has returned after two
\* status queries and one fetch
C15_FullRunWithAudio ==
    /\ pc = "returned"
    /\ sent.uploadImage = 1
    /\ sent.uploadAudio = 1
    /\ sent.submit = 1
    /\ sent.history = 2
    /\ sent.fetch = 1

\* C16: in every execution the health check, the download, the image upload,
\* the audio upload, the submission and the output fetch are each sent at
\* most once, only the status query can be sent more often; an upload that
\* fails, a submission answered without a job id and a fetch that fails each
\* end the execution with an error after that one request, and nothing is
\* sent afterwards.
C16_NoRetry ==
    /\ \A op \in Operations \ {"history"} : sent[op] <= 1
    /\ error = "UploadFailed" =>
           /\ pc = "failed"
           /\ sent.uploadImage = 1
           /\ sent.uploadAudio <= 1
           /\ sent.submit = 0
           /\ ~ENABLED Next
    /\ error = "SubmissionRejected" =>
           /\ pc = "failed"
           /\ sent.submit = 1
           /\ sent.history = 0
           /\ ~ENABLED Next
    /\ (error \in {"RequestFailed", "OutputNotFound"} /\ sent.fetch >= 1) =>
           /\ pc = "failed"
           /\ sent.fetch = 1
           /\ ~result.present
           /\ ~ENABLED Next
    /\ (error = "RequestFailed" /\ sent.fetch = 0 /\ sent.submit >= 1) =>
           /\ pc = "failed"
           /\ sent.submit = 1
           /\ ~ENABLED Next

\* C16 witness: three status queries were sent, the third one reported
\* completion, and the single fetch failed
C16_FetchFailedOnce ==
    /\ sent.history = 3
    /\ sent.fetch = 1
    /\ sent.submit = 1
    /\ sent.uploadImage = 1
    /\ error = "RequestFailed"
    /\ pc = "failed"

\* C17 as stated, for executions in which no request fails: once the loop is
\* entered, polling ends without a completion only by the timeout, and the
\* timeout is raised after exactly 60 x timeoutMinutes status queries.
C17_OnlyTimeoutAfterSixtyTimesTimeout ==
    (LoopEntered /\ pc = "failed" /\ ~Done(promptResult) /\ error # "RequestFailed") =>
        /\ error = "GenerationTimeout"
        /\ sent.history * timeout.den = 60 * timeout.num

\* how polling can have ended without a completion
EndedWithoutCompletion ==
    (LoopEntered /\ pc = "failed" /\ ~Done(promptResult)) =>
        \/ /\ error = "GenerationTimeout"
           /\ sent.history = Cap(timeout)
        \/ /\ error = "RequestFailed"
           /\ sent.history >= 1
           /\ sent.history <= Cap(timeout)

\* C17 amended: when every awaited call settles, every execution ends with a
\* returned item or a thrown error; the number of status queries never
\* exceeds the attempt cap (the least whole n >= 0 with n >= 60 x
\* timeoutMinutes); polling ends without a completion only by the timeout,
\* raised after exactly that many queries, or by a status query that fails as
\* a request; while fewer queries were sent and none completed, the loop goes
\* on.
C17_Terminates ==
    /\ <>Ended
    /\ []EndedWithoutCompletion
    /\ [](LoopEntered => sent.history <= Cap(timeout))
    /\ []((pc = "poll" /\ sent.history < Cap(timeout)) => ~ENABLED PollTimeout)
    /\ [][pc = "poll" /\ pc' = "poll" => attempts' = attempts + 1]_vars

\* C17 witness: with timeoutMinutes = 1 sixty status queries were answered
\* without completion and the execution ended with the timeout
C17_TimedOutAfterSixty ==
    /\ timeout = [num |-> 1, den |-> 1]
    /\ sent.history = 60
    /\ ~Done(promptResult)
    /\ pc = "failed"
    /\ error = "GenerationTimeout"

\* the input item holds a property whose MIME type starts with category/
Holds(b, category) == \E i \in DOMAIN b : StartsWith(b[i].mimeType, category)

\* C18 as stated: when an audio property name is configured and the item has
\* no property of that name, the first property whose MIME category is audio
\* is uploaded instead.
C18_AudioFallback ==
    (pc = "parseWorkflow" /\ audioLookup = "absent" /\ Holds(binary, "audio")) =>
        /\ sent.uploadAudio = 1
        /\ audioInfo # NoInfo

\* C18 amended: the audio lookup is by exact name only.  When an audio
\* property name is configured and the item has no property of that name, no
\* audio is uploaded, whatever else the item holds, and the execution goes on
\* without an audio asset; an audio upload is only ever made from the named
\* property, and only when its MIME category is audio.  The image lookup in
\* binary mode does fall back: an image is uploaded only from an item that
\* holds a property of MIME category image.
C18_AudioByNameOnly ==
    /\ audioLookup = "absent" =>
           /\ sent.uploadAudio = 0
           /\ audioInfo = NoInfo
           /\ pc = "parseWorkflow" => (~HasKey(binary, "audio") /\ error = "none")
           /\ error \notin {"InvalidInputMedia", "UploadFailed", "MissingAudioNode"}
    /\ (audioLookup = "uploaded" /\ binary # Unread) =>
           /\ HasKey(binary, "audio")
           /\ StartsWith(MimeOf(binary, "audio"), "audio")
    /\ sent.uploadAudio = 1 <=> audioLookup = "uploaded"
    /\ (pc = "uploadImage" /\ binary # Unread) => Holds(binary, "image")

\* C18 witness: the audio property name is configured, the item has no such
\* property but holds an audio attachment under another name, and the
\* execution is about to parse the graph without having uploaded any audio
C18_AudioUnderOtherNameSkipped ==
    /\ pc = "parseWorkflow"
    /\ audioLookup = "absent"
    /\ Holds(binary, "audio")
    /\ sent.uploadAudio = 0
    /\ sent.uploadImage = 1

\* the graph at hand carries name in the given input of one of its nodes
Carries(nodes, keys, name) ==
    \E i \in DOMAIN nodes, k \in keys : ~nodes[i].isNull /\ nodes[i].inputs[k] = name

\* C19: an execution that fails with MalformedGraph, MissingImageNode or
\* MissingAudioNode has sent the image upload (and the audio upload, if the
\* audio branch uploaded) but no submission, no status query and no fetch;
\* and a graph is about to be submitted, or was submitted, only if the text
\* parsed to an object, a node of the graph carries the uploaded image name in
\* its image input and, when an audio asset was uploaded, a node carries its
\* name in its audio or filename input.
C19_SubmitAfterPatch ==
    /\ error \in {"MalformedGraph", "MissingImageNode", "MissingAudioNode"} =>
           /\ pc = "failed"
           /\ sent.uploadImage = 1
           /\ sent.uploadAudio = (IF audioLookup = "uploaded" THEN 1 ELSE 0)
           /\ error = "MissingAudioNode" => sent.uploadAudio = 1
           /\ sent.submit = 0
           /\ sent.history = 0
           /\ sent.fetch = 0
    /\ error = "MalformedGraph" => ~Parsed
    /\ pc \in {"submitPrompt", "warmUp"} =>
           /\ Parsed
           /\ Len(workflowData) = Len(workflow.nodes)
           /\ imageInfo.name \in ImageNames
           /\ Carries(workflowData, {"image"}, imageInfo.name)
           /\ audioInfo # NoInfo => Carries(workflowData, {"audio", "filename"}, audioInfo.name)
    /\ sent.submit >= 1 =>
           error \notin {"MalformedGraph", "MissingImageNode", "MissingAudioNode", "TypeError"}

\* C19 witness: the image and the audio were uploaded, the graph has a
\* LoadImage node but no LoadAudio node, and the execution failed with
\* MissingAudioNode before any submission
C19_UploadsThenMissingAudioNode ==
    /\ error = "MissingAudioNode"
    /\ sent.uploadImage = 1
    /\ sent.uploadAudio = 1
    /\ sent.submit = 0
    /\ Carries(workflowData, {"image"}, imageInfo.name)

\* the image of binary input mode can be taken from item b under one of the
\* property names of the model: the named property is there and holds an
\* image, or it is not there and some property holds an image
ImageAvailable(b) ==
    \E name \in {"data", "extra"} :
        \/ HasKey(b, name) /\ StartsWith(MimeOf(b, name), "image")
        \/ ~HasKey(b, name) /\ Holds(b, "image")

\* C20: the health check is the first request of every execution: nothing is
\* sent before it and every other request comes after it; when it fails the
\* execution ends with the thrown error having sent nothing else, and nothing
\* is sent afterwards.  In binary input mode the image upload is sent only
\* when the property the image is taken from has a MIME type starting with
\* image/; otherwise the execution ends before any upload.
C20_HealthCheckFirst ==
    /\ [](pc = "checkConnection" => Requests(sent) = 0)
    /\ [](Requests(sent) >= 1 => sent.health = 1)
    /\ [](pc = "failed" => ~ENABLED Next)
    /\ [][(pc = "checkConnection" /\ error' # "none") =>
             /\ pc' = "failed"
             /\ thrown'.present
             /\ sent' = [op \in Operations |-> IF op = "health" THEN 1 ELSE 0]]_vars
    /\ [][(pc = "prepareInput" /\ binary' # Unread) =>
             /\ sent' = sent
             /\ pc' = "uploadImage" => ImageAvailable(binary')
             /\ ~ImageAvailable(binary') => pc' = "failed"
             /\ pc' = "failed" <=> error' \in {"NoBinaryData", "InvalidInputMedia"}
             /\ pc' \in {"uploadImage", "failed"}]_vars
    /\ [](error \in {"NoBinaryData", "InvalidInputMedia"} /\ audioLookup = "none" =>
             sent.uploadImage = 0 /\ sent.uploadAudio = 0)
    /\ [][sent'.uploadImage > sent.uploadImage => pc = "uploadImage"]_vars

\* C20 witness: the health check failed; it is the only request that was sent
\* and the execution has ended with the thrown error
C20_HealthCheckFailed ==
    /\ pc = "failed"
    /\ error = "RequestFailed"
    /\ thrown.present
    /\ sent = [op \in Operations |-> IF op = "health" THEN 1 ELSE 0]
    /\ binary = Unread

====
